---- MODULE Spec2Model ----
(***************************************************************************)
(* URL shortener service (url-shortener.js, shortener-ws.js, index.js).    *)
(*                                                                         *)
(* A URL is a sequence of one-character strings.  A MongoDB collection is  *)
(* a set of documents with pairwise different _id; findOne returns the set *)
(* of matching documents (empty for null).  Every await of a store         *)
(* operation is a point where another request may run, so each store       *)
(* operation together with the synchronous code that follows it is one     *)
(* action.                                                                 *)
(***************************************************************************)
EXTENDS Integers, Sequences, FiniteSets, TLC

(***************************************************************************)
(* Bounds of the model.                                                    *)
(***************************************************************************)
\* number of requests that may be in flight at the same time
NumProcs == 2
\* size of the token space: stands for MAX_RAND = 2 ** 32 of the source
MaxRand == 2
\* successful queries per short key are capped so that count stays finite
MaxCount == 2

Procs == 1..NumProcs

(***************************************************************************)
(* Strings.                                                                *)
(***************************************************************************)
UPPER == <<"A","B","C","D","E","F","G","H","I","J","K","L","M",
           "N","O","P","Q","R","S","T","U","V","W","X","Y","Z">>
LOWER == <<"a","b","c","d","e","f","g","h","i","j","k","l","m",
           "n","o","p","q","r","s","t","u","v","w","x","y","z">>
DIGITS == <<"0","1","2","3","4","5","6","7","8","9">>

Range(s) == { s[i] : i \in DOMAIN s }

UpperChars == Range(UPPER)
DigitChars == Range(DIGITS)
WordChars == Range(UPPER) \cup Range(LOWER) \cup Range(DIGITS) \cup {"_"}
DomainChars == (WordChars \ {"_"}) \cup {".", "-"}
LowerOf == [ c \in UpperChars |-> LOWER[CHOOSE i \in DOMAIN UPPER : UPPER[i] = c] ]

\* String.prototype.toLowerCase, one character
lowerChar(c) == IF c \in UpperChars THEN LowerOf[c] ELSE c

\* String.prototype.toLowerCase
toLowerCase(s) == [ i \in DOMAIN s |-> lowerChar(s[i]) ]

\* Number.prototype.toString(36) of a non-negative integer
RECURSIVE toString36(_)
toString36(n) ==
    LET d == (DIGITS \o LOWER)[(n % 36) + 1]
    IN  IF n < 36 THEN <<d>> ELSE toString36(n \div 36) \o <<d>>

maxOf(S) == CHOOSE n \in S : \A m \in S : m <= n
minOf(S) == CHOOSE n \in S : \A m \in S : n <= m

\* length of the longest prefix of s[i..] whose characters are in the class:
\* the class is the set chars (within) or its complement (~ within)
runLen(s, i, within, chars) ==
    IF i > Len(s) THEN 0
    ELSE maxOf({ n \in 0..(Len(s) - i + 1) :
                   \A k \in i..(i + n - 1) : (s[k] \in chars) = within })

\* the regex classes [^/] and .
Slash == {"/"}
Newline == {"\n"}

\* ([^/]+)(.*) from position b on, after a scheme url[i..j-1] and "://":
\* k is the end of the longest run of characters other than '/'
matchBase(url, i, j, b, k) ==
    IF k > b
    THEN { [ scheme |-> SubSeq(url, i, j - 1),
             base   |-> SubSeq(url, b, k - 1),
             rest   |-> SubSeq(url, k, k + runLen(url, k, FALSE, Newline) - 1) ] }
    ELSE {}

\* :\/\/ at position j, after the longest run of \w from position i
matchScheme(url, i, j) ==
    IF /\ j > i
       /\ j + 2 <= Len(url)
       /\ SubSeq(url, j, j + 2) = <<":", "/", "/">>
    THEN matchBase(url, i, j, j + 3, j + 3 + runLen(url, j + 3, FALSE, Slash))
    ELSE {}

\* the match of /(\w+):\/\/([^/]+)(.*)/ that starts at position i, if any:
\* every quantifier is greedy, and only the longest run of \w can be
\* followed by ':'
matchAt(url, i) == matchScheme(url, i, i + runLen(url, i, TRUE, WordChars))

\* the leftmost of the matches that start at the positions starts
firstMatch(url, starts) ==
    IF starts = {} THEN {} ELSE matchAt(url, minOf(starts))

\* url.match(/(\w+):\/\/([^/]+)(.*)/): the leftmost match, {} when none
match(url) == firstMatch(url, { i \in 1..Len(url) : matchAt(url, i) # {} })

\* schemeRegex.test(scheme) for /^https?$/i
isHttpScheme(scheme) ==
    toLowerCase(scheme) \in { <<"h","t","t","p">>, <<"h","t","t","p","s">> }

\* lib544.isDomainError: a domain of letters, digits, '.' and '-', optionally
\* followed by ':' and a port of digits
isBaseError(b) ==
    LET d == runLen(b, 1, TRUE, DomainChars)
        p == runLen(b, d + 2, TRUE, DigitChars)
    IN  ~ ( /\ d >= 1
            /\ \/ d = Len(b)
               \/ /\ d < Len(b) /\ b[d + 1] = ":"
                  /\ p >= 1 /\ d + 1 + p = Len(b) )

\* error(code, msg) of splitUrl
error(code) == [ error |-> code, scheme |-> <<>>, base |-> <<>>, rest |-> <<>> ]

\* splitUrl after the match: const [_, scheme, base, rest] = m
splitMatch(m, schemeRegex) ==
    IF isBaseError(m.base) THEN error("URL_SYNTAX")
    ELSE IF schemeRegex /\ ~ isHttpScheme(m.scheme) THEN error("URL_SYNTAX")
    ELSE [ error  |-> "",
           scheme |-> toLowerCase(m.scheme),
           base   |-> toLowerCase(m.base),
           rest   |-> m.rest ]

\* the only element of a set with one element
The(S) == CHOOSE d \in S : TRUE

splitFound(m, schemeRegex) ==
    IF m = {} THEN error("URL_SYNTAX") ELSE splitMatch(The(m), schemeRegex)

\* splitUrl(url, schemeRegex): the components, with the error code or "";
\* schemeRegex is whether /^https?$/i is passed
splitUrl(url, schemeRegex) == splitFound(match(url), schemeRegex)

(***************************************************************************)
(* The service and its inputs.                                             *)
(***************************************************************************)
\* the shortenerBase argument of make(): `${DOMAIN}:${port}`
ShortenerBase == <<"S", ":", "8">>

\* this.base
base == toLowerCase(ShortenerBase)

\* `${scheme}://${key}`
formatUrl(scheme, key) == scheme \o <<":", "/", "/">> \o key

\* `${components.base}${components.rest}`
keyOf(components) == components.base \o components.rest

\* the value of Math.floor(MAX_RAND * Math.random())
Draws == 0..(MaxRand - 1)

\* this.urls[shortKey]: a property of the collection object, never defined
urlsProperty(shortKey) == FALSE

\* _shorten: `${this.base}/${shortened}` for the draw t
shortKeyOf(t) == base \o <<"/">> \o toString36(t)

\* mutant of _shorten: the generator returns the same token at every call
_shortenFirst == { shortKeyOf(0) }

\* _shorten: the keys its do-while loop can return, the draws for which
\* this.urls[shortKey] is falsy
_shorten == { shortKeyOf(t) : t \in { d \in Draws : ~ urlsProperty(shortKeyOf(d)) } }

ShortKeys == { shortKeyOf(t) : t \in Draws }

HTTP == <<"h","t","t","p">>
HTTPS == <<"h","t","t","p","s">>

\* long URLs: two with the same base and rest that differ in scheme and in
\* case, one with an empty rest
UrlA == <<"h","t","t","p",":","/","/","a","/","X">>
UrlB == <<"h","t","t","p","s",":","/","/","b">>
LongUrls == { UrlA, UrlB, <<"H","T","T","P","S",":","/","/","A","/","X">> }

\* no "://", a scheme other than http(s), an invalid authority, and a URL
\* under the service's own base that names no token
OddUrls ==
    { <<"a","/","x">>,
      <<"f","t","p",":","/","/","a","/","x">>,
      <<"h","t","t","p",":","/","/","a","_","/","x">>,
      <<"h","t","t","p",":","/","/","S",":","8","/","z">> }

\* every value add() can return
ShortUrls == { formatUrl(sch, k) : sch \in {HTTP, HTTPS}, k \in ShortKeys }

Urls == LongUrls \cup OddUrls \cup ShortUrls

Ops == { "add", "query", "info", "deactivate" }

\* the calls of the sequential caller: every operation on every input
Calls == Ops \X Urls

\* the calls of the concurrent callers: add, info and deactivate of two long
\* URLs, query of the short URLs
ConcCalls ==
    ({"add", "info", "deactivate"} \X {UrlA, UrlB})
        \cup ({"query"} \X { formatUrl(HTTP, k) : k \in ShortKeys })

\* the calls made while clear() may run: add of two long URLs
ClearCalls == {"add"} \X {UrlA, UrlB}

\* splitUrl(url, /^https?$/i) of every input, computed once
components_ == [ url \in Urls |-> splitUrl(url, TRUE) ]

\* splitUrl(url) of every input, computed once
generic_ == [ url \in Urls |-> splitUrl(url, FALSE) ]

(***************************************************************************)
(* The store: MongoDB collections as sets of documents.                    *)
(***************************************************************************)
\* collection.findOne({_id: id})
findOne(coll, id) == { d \in coll : d._id = id }

\* collection.insertOne(doc) is rejected when the _id exists (E11000)
isDuplicate(coll, doc) == \E d \in coll : d._id = doc._id

\* collection.insertOne(doc), when it is not rejected
insertOne(coll, doc) == coll \cup {doc}

\* mutant of setCount: the filter of the update matches every document
setCountAll(coll, id, n) == { [d EXCEPT !.count = n] : d \in coll }

\* infos.updateOne({_id: id}, {$set: {count: n}})
setCount(coll, id, n) ==
    { IF d._id = id THEN [d EXCEPT !.count = n] ELSE d : d \in coll }

\* infos.updateOne({_id: id}, {$set: {isActive: status}})
setIsActive(coll, id, status) ==
    { IF d._id = id THEN [d EXCEPT !.isActive = status] ELSE d : d \in coll }

\* collection.deleteMany({})
deleteMany(coll) == {}

(***************************************************************************)
(* Results of the public operations.                                       *)
(***************************************************************************)
NoResult == [ code |-> "NONE", message |-> "", value |-> <<>>, info |-> {} ]
Value(v) == [ code |-> "OK", message |-> "", value |-> v, info |-> {} ]
Empty == [ code |-> "OK", message |-> "", value |-> <<>>, info |-> {} ]
makeError(code, msg) ==
    [ code |-> code, message |-> msg, value |-> <<>>, info |-> {} ]

\* the rejection of insertOne: MongoError code 11000, naming the collection
duplicateKey(collName) == makeError("E11000", collName)

\* Object.assign({}, info); delete ret._id
infoResult(d) ==
    [ code |-> "OK", message |-> "", value |-> <<>>,
      info |-> { [ longUrl |-> d.longUrl, shortUrl |-> d.shortUrl,
                   count |-> d.count, isActive |-> d.isActive ] } ]

\* mutant of addCheck: the base is compared with the shortenerBase argument
\* as it was given, not with its lower case
addCheckCaseSensitive(components) ==
    IF components.error # "" THEN components.error
    ELSE IF components.base = ShortenerBase THEN "DOMAIN"
    ELSE ""

\* mutant of addCheck: the base is not compared with this.base
addCheckNoDomain(components) == components.error

(***************************************************************************)
(* The synchronous checks of the operations.                               *)
(***************************************************************************)
\* add, up to _lookupInfo: the error code or ""
addCheck(components) ==
    IF components.error # "" THEN components.error
    ELSE IF components.base = base THEN "DOMAIN"
    ELSE ""

\* query, up to _lookupInfo: the error code or ""
queryCheck(components) ==
    IF components.error # "" THEN components.error
    ELSE IF base # components.base THEN "DOMAIN"
    ELSE ""

\* info, up to _lookupInfo
infoCheck(components) == components.error

\* deactivate, up to _lookupInfo
deactivateCheck(components) == components.error

precheck(o, components) ==
    CASE o = "add" -> addCheck(components)
      [] o = "query" -> queryCheck(components)
      [] o = "info" -> infoCheck(components)
      [] o = "deactivate" -> deactivateCheck(components)

\* mutant of queryNotFound: isActive is not looked at
queryNotFoundAbsent(info) == info = {}

\* query: if (!info || !info.isActive)
queryNotFound(info) == info = {} \/ ~ The(info).isActive

\* mutant of queryCount: the count is set again to the value read
queryCountSame(info) == The(info).count

\* query: { $set: { count: info.count + 1 } }
queryCount(info) == The(info).count + 1

\* add: the new info document
newInfo(shortKey, longKey) ==
    [ _id |-> shortKey, longUrl |-> longKey, shortUrl |-> shortKey,
      count |-> 0, isActive |-> TRUE ]

\* mutant of newUrl: _id and shortUrl swapped
newUrlSwapped(shortKey, longKey) == [ _id |-> shortKey, shortUrl |-> longKey ]

\* add: the new urls document
newUrl(shortKey, longKey) == [ _id |-> longKey, shortUrl |-> shortKey ]

\* add: return { value: `${components.scheme}://${info.shortUrl}` }
addValue(components, info) == formatUrl(components.scheme, The(info).shortUrl)

\* mutant of queryValue: the scheme of the request is not used
queryValueHttp(components, info) == formatUrl(HTTP, The(info).longUrl)

\* query: return { value: `${components.scheme}://${info.longUrl}` }
queryValue(components, info) == formatUrl(components.scheme, The(info).longUrl)

\* mutant of activeStatus: deactivate passes true as well
activeStatusTrue(o) == TRUE

\* mutant of activeStatus: add passes false as well
activeStatusFalse(o) == FALSE

\* the status add and deactivate pass to _setActiveStatus
activeStatus(o) == o = "add"

(***************************************************************************)
(* State.                                                                  *)
(***************************************************************************)
VARIABLES
    infos,      \* collection infos: short key -> info document
    urls,       \* collection urls: long key -> short key
    req,        \* per request slot: the operation in flight and its locals
    clearPc,    \* where the clear() of the reset timer or of the startup is
    \* history of the sequential caller
    prev,       \* the add the caller completed just before its last call, if
                \* the operation before the last was an add that returned a value
    pre,        \* the collections when the last operation was called
    hidden,     \* info documents as they were when they were deactivated
    restored,   \* the element of hidden the last add was called for
    \* history of the concurrent callers
    peer,       \* request slot -> slots whose add of the same new long URL overlapped
    \* history of the callers whose queries of one short URL do not overlap
    hits,       \* short key -> number of queries that returned a value
    \* the callers inside the program
    scan,       \* update_file: the locals of the handler of POST /x-text
    boot        \* go: where the startup is, its LONG_URL arguments, its output

store == <<infos, urls>>
program == <<infos, urls, req, clearPc>>
seqHist == <<prev, pre, hidden, restored>>
concHist == <<peer, hits>>
callers == <<scan, boot>>
vars == <<infos, urls, req, clearPc, prev, pre, hidden, restored, peer, hits,
          scan, boot>>

NoComponents == [ error |-> "", scheme |-> <<>>, base |-> <<>>, rest |-> <<>> ]

NoPrev == [ op |-> "none", url |-> <<>>, result |-> NoResult ]

\* update_file before a request: no text, regex.lastIndex 0
IdleScan ==
    [ pc |-> "idle", text |-> <<>>, new_text |-> <<>>, lastIndex |-> 0,
      matches |-> <<>> ]

\* go before it runs
NoBoot == [ pc |-> "start", args |-> <<>>, i |-> 0, printed |-> <<>> ]

IdleReq ==
    [ pc |-> "idle", op |-> "none", url |-> <<>>, components |-> NoComponents,
      shortKey |-> <<>>, info |-> {}, result |-> NoResult ]

Init ==
    /\ infos = {}
    /\ urls = {}
    /\ req = [ p \in Procs |-> IdleReq ]
    /\ clearPc = "idle"
    /\ prev = NoPrev
    /\ pre = [ infos |-> {}, urls |-> {} ]
    /\ hidden = {}
    /\ restored = {}
    /\ hits = [ k \in ShortKeys |-> 0 ]
    /\ peer = [ p \in Procs |-> {} ]
    /\ scan = IdleScan
    /\ boot = NoBoot

Idle(p) == req[p].pc = "idle"

\* the operation of slot p returns or throws
Return(p, r) ==
    req' = [req EXCEPT ![p] = [IdleReq EXCEPT !.op = req[p].op,
                                             !.url = req[p].url,
                                             !.result = r]]

(***************************************************************************)
(* Operations.  Call is the synchronous head of add, query, info and       *)
(* deactivate, up to the first store operation of _lookupInfo.             *)
(***************************************************************************)
Started(o, url) == [ IdleReq EXCEPT !.op = o, !.url = url ]

\* mutant of isShortKey: every key is looked up in urls
isShortKeyNever(components) == FALSE

\* _lookupInfo: if (components.base === this.base)
isShortKey(components) == components.base = base

CallWith(p, o, url, components, code) ==
    /\ Idle(p)
    /\ IF code # ""
       THEN req' = [req EXCEPT ![p] =
                [Started(o, url) EXCEPT !.result = makeError(code, "")]]
       ELSE req' = [req EXCEPT ![p] =
                [Started(o, url) EXCEPT
                   !.components = components,
                   \* _lookupInfo: a key under this.base is the short key
                   !.shortKey = IF isShortKey(components)
                                THEN keyOf(components) ELSE <<>>,
                   !.pc = IF isShortKey(components)
                          THEN "lookup_infos" ELSE "lookup_urls"]]
    /\ UNCHANGED store

Call(p, o, url) ==
    CallWith(p, o, url, components_[url], precheck(o, components_[url]))

\* what add, query, info and deactivate do with the info _lookupInfo returns
AfterLookup(p, info) ==
    LET r == req[p]
    IN  CASE r.op = "add" ->
               IF info = {}
               THEN \E k \in _shorten :
                      req' = [req EXCEPT ![p].info = info, ![p].shortKey = k,
                                         ![p].pc = "add_check"]
               ELSE IF ~ The(info).isActive
               THEN req' = [req EXCEPT ![p].info = info, ![p].pc = "set_active"]
               ELSE Return(p, Value(addValue(r.components, info)))
          [] r.op = "query" ->
               IF queryNotFound(info)
               THEN Return(p, makeError("NOT_FOUND", ""))
               ELSE req' = [req EXCEPT ![p].info = info, ![p].pc = "query_update"]
          [] r.op = "info" ->
               IF info = {}
               THEN Return(p, makeError("NOT_FOUND", ""))
               ELSE Return(p, infoResult(The(info)))
          [] r.op = "deactivate" ->
               IF info = {}
               THEN Return(p, makeError("NOT_FOUND", ""))
               ELSE IF The(info).isActive
               THEN req' = [req EXCEPT ![p].info = info, ![p].pc = "set_active"]
               ELSE Return(p, Empty)

\* _lookupInfo: await this.urls.findOne({_id: key})
LookupUrls(p) ==
    /\ req[p].pc = "lookup_urls"
    /\ LET shortLongMap == findOne(urls, keyOf(req[p].components))
       IN  IF shortLongMap = {}
           THEN AfterLookup(p, {})
           ELSE req' = [req EXCEPT ![p].shortKey = The(shortLongMap).shortUrl,
                                   ![p].pc = "lookup_infos"]
    /\ UNCHANGED store

\* _lookupInfo: return await this.infos.findOne({_id: shortKey})
LookupInfos(p) ==
    /\ req[p].pc = "lookup_infos"
    /\ AfterLookup(p, findOne(infos, req[p].shortKey))
    /\ UNCHANGED store

\* add: while (await this.infos.findOne({_id: shortKey}))
AddCheck(p) ==
    /\ req[p].pc = "add_check"
    /\ IF findOne(infos, req[p].shortKey) # {}
       THEN \E k \in _shorten : req' = [req EXCEPT ![p].shortKey = k]
       ELSE req' = [req EXCEPT
                      ![p].info = { newInfo(req[p].shortKey,
                                            keyOf(req[p].components)) },
                      ![p].pc = "add_insert_infos"]
    /\ UNCHANGED store

\* add: await this.infos.insertOne(info)
AddInsertInfos(p) ==
    /\ req[p].pc = "add_insert_infos"
    /\ IF isDuplicate(infos, The(req[p].info))
       THEN /\ Return(p, duplicateKey("infos"))
            /\ UNCHANGED store
       ELSE /\ infos' = insertOne(infos, The(req[p].info))
            /\ req' = [req EXCEPT ![p].pc = "add_insert_urls"]
            /\ UNCHANGED urls

\* add: await this.urls.insertOne({_id: longKey, shortUrl: shortKey}), then
\* the tail of add
AddInsertUrls(p) ==
    /\ req[p].pc = "add_insert_urls"
    /\ LET r == req[p]
           doc == newUrl(r.shortKey, keyOf(r.components))
       IN  IF isDuplicate(urls, doc)
           THEN /\ Return(p, duplicateKey("urls"))
                /\ UNCHANGED store
           ELSE /\ urls' = insertOne(urls, doc)
                /\ IF ~ The(r.info).isActive
                   THEN req' = [req EXCEPT ![p].pc = "set_active"]
                   ELSE Return(p, Value(addValue(r.components, r.info)))
                /\ UNCHANGED infos

\* _setActiveStatus, then the tail of add or deactivate
SetActive(p) ==
    /\ req[p].pc = "set_active"
    /\ LET r == req[p]
       IN  /\ infos' = setIsActive(infos, The(r.info).shortUrl, activeStatus(r.op))
           /\ IF r.op = "add"
              THEN Return(p, Value(addValue(r.components, r.info)))
              ELSE Return(p, Empty)
    /\ UNCHANGED urls

\* query: await this.infos.updateOne({_id: info.shortUrl}, update)
QueryUpdate(p) ==
    /\ req[p].pc = "query_update"
    /\ LET r == req[p]
       IN  /\ infos' = setCount(infos, The(r.info).shortUrl, queryCount(r.info))
           /\ Return(p, Value(queryValue(r.components, r.info)))
    /\ UNCHANGED urls

\* clear is called: its first deleteMany is under way
ClearCall ==
    /\ clearPc = "idle"
    /\ clearPc' = "clear_infos"
    /\ UNCHANGED <<store, req>>

\* clear: await this.infos.deleteMany({})
ClearInfos ==
    /\ clearPc = "clear_infos"
    /\ infos' = deleteMany(infos)
    /\ clearPc' = "clear_urls"
    /\ UNCHANGED <<urls, req>>

\* clear: await this.urls.deleteMany({}); return {}
ClearUrls ==
    /\ clearPc = "clear_urls"
    /\ urls' = deleteMany(urls)
    /\ clearPc' = "idle"
    /\ UNCHANGED <<infos, req>>

\* one store operation of the request in slot p, with the code that follows it
Step(p) ==
    \/ LookupUrls(p)
    \/ LookupInfos(p)
    \/ AddCheck(p)
    \/ AddInsertInfos(p)
    \/ AddInsertUrls(p)
    \/ SetActive(p)
    \/ QueryUpdate(p)

\* the store operations of add
AddStep(p) ==
    \/ LookupUrls(p)
    \/ LookupInfos(p)
    \/ AddCheck(p)
    \/ AddInsertInfos(p)
    \/ AddInsertUrls(p)

Clear ==
    \/ ClearCall
    \/ ClearInfos
    \/ ClearUrls

(***************************************************************************)
(* Callers.                                                                *)
(***************************************************************************)
\* the info documents whose long or short key is key
mappingOf(coll, key) == { d \in coll : key \in { d.longUrl, d.shortUrl } }

\* the key of an input, or <<>> when it has none
inputKey(url) ==
    IF components_[url].error # "" THEN <<>> ELSE keyOf(components_[url])

\* the requests of operation o in flight on key
inFlight(o, key) ==
    { q \in Procs : /\ ~ Idle(q)
                    /\ req[q].op = o
                    /\ keyOf(req[q].components) = key }

\* count is kept finite: no query is called on a record that has, with the
\* queries in flight, been resolved MaxCount times
WithinCount(o, url) ==
    o = "query" =>
        \A d \in mappingOf(infos, inputKey(url)) :
            d.count + Cardinality(inFlight("query", inputKey(url))) < MaxCount

\* A single caller that awaits each operation before it calls the next.
SeqCall(o, url) ==
    /\ \A p \in Procs : Idle(p)
    /\ WithinCount(o, url)
    /\ Call(1, o, url)
    /\ UNCHANGED clearPc
    /\ prev' = IF req[1].op = "add" /\ req[1].result.code = "OK"
               THEN [ op |-> "add", url |-> req[1].url, result |-> req[1].result ]
               ELSE NoPrev
    /\ pre' = [ infos |-> infos, urls |-> urls ]
    /\ restored' = IF o = "add"
                   THEN { h \in hidden : h.longUrl = inputKey(url) } ELSE {}
    /\ hidden' = hidden \ restored'
    /\ UNCHANGED <<concHist, callers>>

SeqStep ==
    /\ Step(1)
    /\ UNCHANGED clearPc
    /\ hidden' = IF /\ req[1].op = "deactivate"
                    /\ Idle(1)'
                    /\ req'[1].result.code = "OK"
                 THEN hidden \cup { d \in mappingOf(pre.infos, inputKey(req[1].url)) :
                                      d.isActive }
                 ELSE hidden
    /\ UNCHANGED <<prev, pre, restored>>
    /\ UNCHANGED <<concHist, callers>>

SeqNext ==
    \/ \E c \in Calls : SeqCall(c[1], c[2])
    \/ SeqStep

SeqSpec == Init /\ [][SeqNext]_vars

\* the adds in flight that a call of o for url joins: adds of the same long
\* URL, which has no entry in urls yet
Peers(o, url) ==
    IF o = "add" /\ findOne(urls, inputKey(url)) = {}
    THEN inFlight("add", inputKey(url)) ELSE {}

\* Callers whose add, query, info and deactivate requests overlap.
ConcCall(p, o, url) ==
    /\ WithinCount(o, url)
    /\ Call(p, o, url)
    /\ UNCHANGED clearPc
    /\ peer' = [ q \in Procs |->
                   IF q = p THEN Peers(o, url)
                   ELSE IF q \in Peers(o, url) THEN peer[q] \cup {p}
                   ELSE peer[q] ]
    /\ UNCHANGED <<seqHist, hits, callers>>

ConcStep(p) ==
    /\ Step(p)
    /\ UNCHANGED <<clearPc, seqHist, concHist, callers>>

Next ==
    \/ \E p \in Procs, c \in ConcCalls : ConcCall(p, c[1], c[2])
    \/ \E p \in Procs : ConcStep(p)

Spec == Init /\ [][Next]_vars

\* The same callers, when no two queries of one short URL overlap.
SerialCall(p, o, url) ==
    /\ WithinCount(o, url)
    /\ o = "query" => inFlight("query", inputKey(url)) = {}
    /\ Call(p, o, url)
    /\ UNCHANGED <<clearPc, seqHist, concHist, callers>>

SerialStep(p) ==
    /\ Step(p)
    /\ hits' = IF req[p].pc = "query_update" /\ req'[p].result.code = "OK"
               THEN [hits EXCEPT ![The(req[p].info).shortUrl] = @ + 1]
               ELSE hits
    /\ UNCHANGED <<clearPc, seqHist, peer, callers>>

SerialNext ==
    \/ \E p \in Procs, c \in ConcCalls : SerialCall(p, c[1], c[2])
    \/ \E p \in Procs : SerialStep(p)

SerialSpec == Init /\ [][SerialNext]_vars

\* Callers whose add requests overlap, and clear() running among them.
ClearNext ==
    \/ \E p \in Procs, c \in ClearCalls :
          /\ WithinCount(c[1], c[2])
          /\ Call(p, c[1], c[2])
          /\ UNCHANGED <<clearPc, seqHist, concHist, callers>>
    \/ \E p \in Procs :
          AddStep(p) /\ UNCHANGED <<clearPc, seqHist, concHist, callers>>
    \/ Clear /\ UNCHANGED <<seqHist, concHist, callers>>

SpecClear == Init /\ [][ClearNext]_vars
(***************************************************************************)
(* Properties of the sequential contract (SeqSpec).                        *)
(***************************************************************************)
\* the last operation of the sequential caller was o and has returned or thrown
Done(o) == Idle(1) /\ req[1].op = o

\* C1: idempotent add.  When add(u) returned a value and the caller's next
\* call is add of the same long URL, the second add leaves both collections
\* as they were when it was called (no new info document, no new urls
\* document, count unchanged), and for the same argument it returns the
\* same value.
C1_IdempotentAdd ==
    ( /\ Done("add")
      /\ prev.op = "add"
      /\ inputKey(prev.url) = inputKey(req[1].url) )
    => /\ req[1].result.code = "OK"
       /\ infos = pre.infos
       /\ urls = pre.urls
       /\ prev.url = req[1].url => req[1].result.value = prev.result.value

C1_Witness ==
    /\ Done("add")
    /\ prev.op = "add"
    /\ prev.url = req[1].url
    /\ req[1].result.code = "OK"
    /\ infos # {}

\* C2: round trip.  When add(u) returned a value and the caller's next call
\* is query of that value, query returns a URL whose scheme, authority and
\* rest are those of u (scheme and authority in lower case, as splitUrl
\* gives them).
C2_RoundTrip ==
    ( /\ Done("query")
      /\ prev.op = "add"
      /\ req[1].url = prev.result.value )
    => /\ req[1].result.code = "OK"
       /\ splitUrl(req[1].result.value, FALSE) = splitUrl(prev.url, FALSE)

C2_Witness ==
    /\ Done("query")
    /\ prev.op = "add"
    /\ req[1].url = prev.result.value
    /\ req[1].result.code = "OK"
    /\ splitUrl(prev.url, FALSE).scheme = HTTPS
    /\ prev.url # req[1].result.value

\* C4: deactivation hides.  From the return of deactivate(u) to the next
\* call of add(u) the info document of u is inactive with the count it had,
\* a query of its short URL throws NOT_FOUND and changes nothing, and info
\* of its long or short URL returns the document with isActive false.
C4_DeactivationHides ==
    /\ \A h \in hidden : [h EXCEPT !.isActive = FALSE] \in infos
    /\ ( Done("query") /\ \E h \in hidden : h.shortUrl = inputKey(req[1].url) )
       => /\ req[1].result.code = "NOT_FOUND"
          /\ infos = pre.infos
          /\ urls = pre.urls
    /\ ( Done("info") /\ mappingOf(hidden, inputKey(req[1].url)) # {} )
       => /\ req[1].result.code = "OK"
          /\ req[1].result.info =
               { [ longUrl |-> h.longUrl, shortUrl |-> h.shortUrl,
                   count |-> h.count, isActive |-> FALSE ] :
                 h \in mappingOf(hidden, inputKey(req[1].url)) }

C4_Witness ==
    /\ Done("query")
    /\ req[1].result.code = "NOT_FOUND"
    /\ \E h \in hidden : h.shortUrl = inputKey(req[1].url) /\ h.count > 0

\* C5: reactivation restores.  When add(u) is called for a deactivated
\* mapping, it returns the short URL of the mapping and leaves the info
\* document exactly as it was before the deactivation (isActive true, the
\* same shortUrl, longUrl and count); nothing else changes.
C5_ReactivationRestores ==
    ( Done("add") /\ restored # {} )
    => /\ req[1].result.code = "OK"
       /\ urls = pre.urls
       /\ \A h \in restored :
            /\ h.isActive
            /\ [h EXCEPT !.isActive = FALSE] \in pre.infos
            /\ infos = (pre.infos \ { [h EXCEPT !.isActive = FALSE] }) \cup {h}
            /\ req[1].result.value =
                 formatUrl(components_[req[1].url].scheme, h.shortUrl)

C5_Witness ==
    /\ Done("add")
    /\ req[1].result.code = "OK"
    /\ \E h \in restored : h.count > 0

\* the validation of operation o on url, as the interface states it
Valid(o, url) ==
    /\ splitUrl(url, FALSE).error = ""
    /\ isHttpScheme(splitUrl(url, FALSE).scheme)
    /\ o = "add" => splitUrl(url, FALSE).base # toLowerCase(ShortenerBase)
    /\ o = "query" => splitUrl(url, FALSE).base = toLowerCase(ShortenerBase)

\* C10: no mutation on failure.  An operation that throws URL_SYNTAX, DOMAIN
\* or NOT_FOUND leaves both collections as they were when it was called, and
\* an operation is about to write to the store only when its argument has
\* passed validation and, for query and deactivate, its mapping was found
\* (and found active, for query).
C10_NoMutationOnFailure ==
    /\ ( Idle(1) /\ req[1].result.code \in {"URL_SYNTAX", "DOMAIN", "NOT_FOUND"} )
       => infos = pre.infos /\ urls = pre.urls
    /\ req[1].pc \in {"add_insert_infos", "add_insert_urls", "set_active",
                      "query_update"}
       => /\ Valid(req[1].op, req[1].url)
          /\ req[1].op \in {"query", "deactivate"} => req[1].info # {}
          /\ req[1].op = "query" => The(req[1].info).isActive

C10_Witness ==
    /\ Idle(1)
    /\ req[1].op = "query"
    /\ req[1].result.code = "NOT_FOUND"
    /\ \E d \in infos : d._id = inputKey(req[1].url) /\ d.count > 0

(***************************************************************************)
(* Properties of overlapping requests.                                     *)
(***************************************************************************)
\* C3: uniqueness.  In every state, with requests and clear() overlapping,
\* no two info documents have the same shortUrl and no two urls documents
\* (two long keys) have the same shortUrl.
C3_Uniqueness ==
    /\ \A d1, d2 \in infos : d1.shortUrl = d2.shortUrl => d1 = d2
    /\ \A e1, e2 \in urls : e1.shortUrl = e2.shortUrl => e1 = e2

\* slot p completes its query with a value in this step
QueryReturns(p) ==
    /\ req[p].pc = "query_update"
    /\ Idle(p)'
    /\ req'[p].result.code = "OK"

\* the count of the info document with _id k, -1 when there is none
countOf(coll, k) == IF findOne(coll, k) = {} THEN -1 ELSE The(findOne(coll, k)).count

\* C6: atomic count increment.  Every query that returns a value raises the
\* count of its info document by one, whatever other queries of the same
\* short URL are in flight, so that the count grows by the number of queries
\* that succeed.
C6_AtomicIncrement ==
    [][ \A p \in Procs :
          QueryReturns(p) =>
             countOf(infos', The(req[p].info).shortUrl)
                = countOf(infos, The(req[p].info).shortUrl) + 1 ]_vars

\* C7: count monotonicity.  When the queries of one short URL do not overlap
\* each other, the count of every info document is the number of queries of
\* its short URL that have returned a value, whatever add, query, info and
\* deactivate requests for other URLs (and add, info and deactivate requests
\* for the same mapping) run in between.
C7_CountMonotonicity ==
    \A d \in infos : d.count = hits[d._id]

C7_Witness ==
    /\ \E d \in infos : d.count >= 2 /\ hits[d._id] = d.count
    /\ Cardinality(infos) = 2
    /\ \E p \in Procs : ~ Idle(p)

\* C8: overlapping adds of the same long URL.  When two add calls for the
\* same long URL, which has no urls document, overlapped and both have
\* completed, both returned the same value and the store holds exactly one
\* urls document and exactly one info document for that long URL.
C8_ConcurrentSameAdd ==
    \A p, q \in Procs :
        ( /\ p # q /\ Idle(p) /\ Idle(q)
          /\ q \in peer[p] /\ p \in peer[q] )
        => /\ req[p].result.code = "OK"
           /\ req[q].result.code = "OK"
           /\ req[p].result.value = req[q].result.value
           /\ Cardinality(findOne(urls, inputKey(req[p].url))) = 1
           /\ Cardinality({ d \in infos : d.longUrl = inputKey(req[p].url) }) = 1

\* C9: key-collision retry.  An add whose insertOne of the info document is
\* rejected (another add took the key after the existence check) draws again
\* and returns a value: no add ends with the duplicate-key error of infos.
C9_CollisionRetry ==
    \A p \in Procs :
        ( Idle(p) /\ req[p].op = "add" /\ req[p].result.message = "infos" )
        => req[p].result.code = "OK"

(***************************************************************************)
(* Properties of the sequential contract (SeqSpec): checks and lookup.     *)
(***************************************************************************)
\* key is base + rest for the service's own base
underBase(key) ==
    \/ key = base
    \/ /\ Len(key) > Len(base)
       /\ SubSeq(key, 1, Len(base) + 1) = base \o <<"/">>

\* C11: domain guard.  add of a URL that parses and whose lower-cased base
\* is the service base throws DOMAIN; query of a URL that parses and whose
\* base is not the service base throws DOMAIN; no info document has a
\* longUrl, and no urls document an _id, under the service base.
C11_DomainGuard ==
    /\ ( /\ Done("add")
         /\ components_[req[1].url].error = ""
         /\ components_[req[1].url].base = base )
       => req[1].result.code = "DOMAIN"
    /\ ( /\ Done("query")
         /\ components_[req[1].url].error = ""
         /\ components_[req[1].url].base # base )
       => req[1].result.code = "DOMAIN"
    /\ \A d \in infos : ~ underBase(d.longUrl)
    /\ \A e \in urls : ~ underBase(e._id)

C11_Witness ==
    /\ Done("add")
    /\ prev.op = "add"
    /\ req[1].url = prev.result.value
    /\ req[1].result.code = "DOMAIN"
    /\ infos # {}

\* C12: info applies no scheme restriction.  info of a URL that has the form
\* scheme://authority rest with a valid authority, whatever the scheme,
\* returns the info document whose long or short key is base + rest, or
\* throws NOT_FOUND when there is none.
C12_InfoAnyScheme ==
    ( Done("info") /\ generic_[req[1].url].error = "" )
    => req[1].result =
         IF mappingOf(pre.infos, keyOf(generic_[req[1].url])) = {}
         THEN makeError("NOT_FOUND", "")
         ELSE infoResult(The(mappingOf(pre.infos, keyOf(generic_[req[1].url]))))

\* C13: either-form lookup.  info and deactivate, called with a long URL or
\* with a short URL, act on the one info document whose longUrl or shortUrl
\* is the key of the URL: info returns its longUrl, shortUrl, count and
\* isActive, whether it is active or not, and deactivate leaves it inactive
\* and everything else as it was.
C13_EitherFormLookup ==
    LET M == mappingOf(pre.infos, inputKey(req[1].url))
    IN  /\ ( Done("info") /\ M # {} )
           => /\ Cardinality(M) = 1
              /\ req[1].result = infoResult(The(M))
        /\ ( Done("deactivate") /\ M # {} )
           => /\ Cardinality(M) = 1
              /\ req[1].result = Empty
              /\ infos = setIsActive(pre.infos, The(M)._id, FALSE)
              /\ urls = pre.urls

\* info through the short URL of a mapping that is deactivated
C13_Witness ==
    /\ Done("info")
    /\ req[1].url \in ShortUrls
    /\ req[1].result.code = "OK"
    /\ \E h \in hidden : /\ h.shortUrl = inputKey(req[1].url)
                         /\ h.count > 0
                         /\ req[1].result.info =
                              { [ longUrl |-> h.longUrl, shortUrl |-> h.shortUrl,
                                  count |-> h.count, isActive |-> FALSE ] }

\* C14: deactivate is idempotent.  deactivate of a URL that parses returns
\* the empty result when a mapping exists for it, active or not, and throws
\* NOT_FOUND exactly when none exists; deactivate of a mapping that is
\* already inactive leaves both collections as they were.
C14_DeactivateIdempotent ==
    LET M == mappingOf(pre.infos, inputKey(req[1].url))
    IN  ( Done("deactivate") /\ components_[req[1].url].error = "" )
        => /\ M # {} => req[1].result = Empty
           /\ M = {} <=> req[1].result.code = "NOT_FOUND"
           /\ (M # {} /\ \A d \in M : ~ d.isActive)
                 => infos = pre.infos /\ urls = pre.urls
           /\ \A d \in mappingOf(infos, inputKey(req[1].url)) : ~ d.isActive

\* a second deactivate of a mapping that has been queried
C14_Witness ==
    /\ Done("deactivate")
    /\ req[1].result = Empty
    /\ infos = pre.infos
    /\ \E d \in mappingOf(infos, inputKey(req[1].url)) :
          ~ d.isActive /\ d.count > 0

(***************************************************************************)
(* Properties of the two collections under overlapping requests.           *)
(***************************************************************************)
\* no request and no clear() is in flight
Quiescent == clearPc = "idle" /\ \A p \in Procs : Idle(p)

\* C17: two-way index consistency.  Whenever no add and no clear() is in
\* flight, every urls document (u -> s) has an info document with _id s and
\* longUrl u, and every info document has the urls document of its longUrl,
\* which points back to it.
C17_IndexConsistency ==
    Quiescent =>
        /\ \A e \in urls : \E d \in infos : d._id = e.shortUrl /\ d.longUrl = e._id
        /\ \A d \in infos : \E e \in urls : e._id = d.longUrl /\ e.shortUrl = d._id

\* infos' is infos with the field count (isActive) of the document with
\* _id k set to what it is in infos'
OnlyCount(k) ==
    infos' = { IF d._id = k
               THEN [d EXCEPT !.count = The(findOne(infos', k)).count]
               ELSE d : d \in infos }
OnlyIsActive(k) ==
    infos' = { IF d._id = k
               THEN [d EXCEPT !.isActive = The(findOne(infos', k)).isActive]
               ELSE d : d \in infos }

\* the step of slot p changes of the store what its place in the code may
StepFrame(p) ==
    CASE req[p].pc = "query_update" ->
           /\ OnlyCount(The(req[p].info).shortUrl)
           /\ urls' = urls
      [] req[p].pc = "set_active" ->
           /\ OnlyIsActive(The(req[p].info).shortUrl)
           /\ urls' = urls
      [] req[p].pc = "add_insert_infos" ->
           /\ infos \subseteq infos'
           /\ urls' = urls
      [] req[p].pc = "add_insert_urls" ->
           /\ urls \subseteq urls'
           /\ infos' = infos
      [] OTHER ->
           /\ infos' = infos
           /\ urls' = urls

\* C18: frame of the updates.  With requests overlapping, the store write
\* of a query changes only the count of the document it resolved, the write
\* of deactivate and of a reactivating add only its isActive, a new add only
\* inserts, and every other step (info, the lookups) writes nothing: no
\* document is removed, no longUrl or shortUrl changes, no other document
\* and no urls document is touched.
C18_UpdateFrame ==
    [][ /\ \A p \in Procs : req'[p] # req[p] => StepFrame(p)
        /\ \A d \in infos : \E e \in infos' :
              e._id = d._id /\ e.longUrl = d.longUrl /\ e.shortUrl = d.shortUrl
        /\ urls \subseteq urls' ]_vars

\* a query has read the document and is about to write its count, and a
\* deactivate of the same mapping has returned since; another document exists
C18_Witness ==
    \E p, q \in Procs :
        /\ req[p].pc = "query_update"
        /\ Idle(q) /\ req[q].op = "deactivate" /\ req[q].result = Empty
        /\ \E d \in infos : /\ d._id = The(req[p].info).shortUrl
                            /\ ~ d.isActive
                            /\ d.longUrl = inputKey(req[q].url)
        /\ Cardinality(infos) = 2

(***************************************************************************)
(* The routes of shortener-ws.js.  A handler awaits one operation of the   *)
(* shortener and answers in the same turn, so the status it sends is a     *)
(* function of the route and of how the operation ended.                   *)
(***************************************************************************)
OK == 200
CREATED == 201
FOUND == 302
BAD_REQUEST == 400
NOT_FOUND == 404
SERVER_ERROR == 500

\* an error thrown by the store client that has no code property
storeError == makeError("", "store")

\* POST /x-url
add_url(result) == IF result.code = "OK" THEN CREATED ELSE BAD_REQUEST

\* DELETE /x-url
deactivate_url(result) == IF result.code = "OK" THEN OK ELSE NOT_FOUND

\* GET /x-url
get_info(result) == IF result.code = "OK" THEN OK ELSE NOT_FOUND

\* GET /<token>: res.redirect(result.value)
load_url(result) == IF result.code = "OK" THEN FOUND ELSE NOT_FOUND

\* the status of the response to the request served in slot p
status(p) ==
    CASE req[p].op = "add" -> add_url(req[p].result)
      [] req[p].op = "deactivate" -> deactivate_url(req[p].result)
      [] req[p].op = "info" -> get_info(req[p].result)
      [] req[p].op = "query" -> load_url(req[p].result)

\* the store operation the request in slot p awaits is rejected by the
\* client (the store cannot be reached): the operation throws that error
StoreFails(p) ==
    /\ ~ Idle(p)
    /\ Return(p, storeError)
    /\ UNCHANGED <<store, clearPc, seqHist, concHist, callers>>

\* Requests served one at a time, over a store that may fail.
HttpNext ==
    \/ \E c \in Calls : SeqCall(c[1], c[2])
    \/ SeqStep
    \/ StoreFails(1)

HttpSpec == Init /\ [][HttpNext]_vars

\* the request served in slot p has been answered
Answered(p) == Idle(p) /\ req[p].op # "none"

\* C15: HTTP error translation.  On every route the status of a failed
\* request follows from the error code: 404 for NOT_FOUND, 400 for
\* URL_SYNTAX and DOMAIN, and 500 for an error without a code.
C15_HttpErrorTranslation ==
    \A p \in Procs :
        Answered(p) =>
            /\ req[p].result.code = "NOT_FOUND" => status(p) = NOT_FOUND
            /\ req[p].result.code \in {"URL_SYNTAX", "DOMAIN"}
                  => status(p) = BAD_REQUEST
            /\ req[p].result.code = "" => status(p) = SERVER_ERROR

(***************************************************************************)
(* Key allocation: the draw-and-check loop of add.                         *)
(***************************************************************************)
\* the sequential caller's add is in the loop
\*   do { shortKey = this._shorten(components) }
\*   while (await this.infos.findOne({_id: shortKey}))
InLoop == req[1].pc = "add_check"

\* the check of the loop found a document and _shorten drew the token of k
Redraw(k) ==
    /\ InLoop
    /\ SeqStep
    /\ InLoop'
    /\ req'[1].shortKey = k

\* The sequential caller, when every awaited store operation completes and
\* Math.random() is fair: a loop that keeps drawing draws every token.
FairSpec ==
    /\ Init
    /\ [][SeqNext]_vars
    /\ WF_vars(SeqStep)
    /\ \A k \in ShortKeys : WF_vars(Redraw(k))

\* C19: key-allocation termination.  The loop of add leaves only with a key
\* for which infos holds no document, and, with fair draws, whenever a token
\* is unused an add that is in the loop eventually leaves it.
C19_KeyAllocationTerminates ==
    /\ [][ (InLoop /\ ~ InLoop')
              => /\ req'[1].pc = "add_insert_infos"
                 /\ findOne(infos, req'[1].shortKey) = {} ]_vars
    /\ ( InLoop /\ \E k \in ShortKeys : findOne(infos, k) = {} )
          ~> (req[1].pc = "add_insert_infos")

\* the loop has drawn the key of an existing document and has to draw again
C19_Witness ==
    /\ InLoop
    /\ findOne(infos, req[1].shortKey) # {}
    /\ \E k \in ShortKeys : findOne(infos, k) = {}

(***************************************************************************)
(* Startup: go() of index.js with LONG_URL arguments.                      *)
(***************************************************************************)
\* the LONG_URL arguments of the command line (args.slice(2))
SeedArgs ==
    { <<UrlA>>, <<UrlA, UrlB>>, <<UrlB, UrlA>>, <<UrlA, UrlA>>,
      <<UrlB, <<"a","/","x">> >> }

\* go: shortener.clear() is called and not awaited (its first deleteMany is
\* under way), and the seeding loop begins
GoStart(args) ==
    /\ boot.pc = "start"
    /\ clearPc' = "clear_infos"
    /\ boot' = [ pc |-> "seeding", args |-> args, i |-> 1, printed |-> <<>> ]
    /\ UNCHANGED <<store, req, seqHist, concHist, scan>>

\* go: await shortener.add(args[i]), up to the first store operation of add
GoAdd ==
    /\ boot.pc = "seeding"
    /\ boot.i <= Len(boot.args)
    /\ Call(1, "add", boot.args[boot.i])
    /\ boot' = [boot EXCEPT !.pc = "adding"]
    /\ UNCHANGED <<clearPc, seqHist, concHist, scan>>

\* one store operation of the add the loop awaits
GoStep ==
    /\ boot.pc = "adding"
    /\ AddStep(1)
    /\ UNCHANGED <<clearPc, seqHist, concHist, callers>>

\* go: the add returned: console.log(`${args[i]} => ${result.value}`) and
\* the next turn of the loop; or it threw: catch (err), console.error(err)
GoResume ==
    /\ boot.pc = "adding"
    /\ Idle(1)
    /\ boot' = IF req[1].result.code = "OK"
               THEN [boot EXCEPT !.pc = "seeding",
                                 !.i = @ + 1,
                                 !.printed = Append(@, req[1].result.value)]
               ELSE [boot EXCEPT !.pc = "failed"]
    /\ UNCHANGED <<store, req, clearPc, seqHist, concHist, scan>>

\* go: the loop has ended: shortenerServices.serve(port, BASE, shortener)
GoServe ==
    /\ boot.pc = "seeding"
    /\ boot.i > Len(boot.args)
    /\ boot' = [boot EXCEPT !.pc = "serving"]
    /\ UNCHANGED <<store, req, clearPc, seqHist, concHist, scan>>

\* a deleteMany of the clear() that go did not await completes
GoClear ==
    /\ ClearInfos \/ ClearUrls
    /\ UNCHANGED <<seqHist, concHist, callers>>

BootNext ==
    \/ \E args \in SeedArgs : GoStart(args)
    \/ GoAdd
    \/ GoStep
    \/ GoResume
    \/ GoServe
    \/ GoClear

BootSpec == Init /\ [][BootNext]_vars

\* an add of the seeding loop has performed a store operation
Touched ==
    \/ boot.i > 1
    \/ boot.pc = "adding" /\ req[1].pc \notin {"idle", "lookup_urls"}
    \/ boot.pc = "adding" /\ Idle(1) /\ req[1].result.code = "OK"

\* query of the printed short URL would return the long URL of key
Resolves(shortUrl, key) ==
    /\ queryCheck(components_[shortUrl]) = ""
    /\ ~ queryNotFound(findOne(infos, keyOf(components_[shortUrl])))
    /\ The(findOne(infos, keyOf(components_[shortUrl]))).longUrl = key

\* C20: startup seeding.  The clear() of the startup has completed both
\* deleteMany calls before an add of the seeding loop performs a store
\* operation; and once the loop has ended, every listed URL has its urls
\* document and its info document, and every printed short URL resolves.
C20_StartupSeeding ==
    /\ Touched => clearPc = "idle"
    /\ boot.pc = "serving" =>
         \A i \in 1..Len(boot.args) :
            /\ \E e \in urls, d \in infos :
                  /\ e._id = inputKey(boot.args[i])
                  /\ d._id = e.shortUrl
                  /\ d.longUrl = e._id
            /\ Resolves(boot.printed[i], inputKey(boot.args[i]))

(***************************************************************************)
(* The text-scan route: update_file of shortener-ws.js (POST /x-text).     *)
(***************************************************************************)
\* [a-z0-9] under the flag i
AlnumChars == Range(UPPER) \cup Range(LOWER) \cup Range(DIGITS)

\* [\_\-\/\.\?\=\&\%\#\@\+]
SepChars == {"_", "-", "/", ".", "?", "=", "&", "%", "#", "@", "+"}

\* ([...]{1}[a-z0-9]+)* after a match that ends at position e: the end of
\* the longest sequence of groups
RECURSIVE scanGroups(_, _)
scanGroups(text, e) ==
    IF /\ e + 2 <= Len(text)
       /\ text[e + 1] \in SepChars
       /\ text[e + 2] \in AlnumChars
    THEN scanGroups(text, e + 1 + runLen(text, e + 2, TRUE, AlnumChars))
    ELSE e

\* [a-z0-9]+([...]{1}[a-z0-9]+)* from position k: the end of the match
scanHost(text, k) ==
    IF runLen(text, k, TRUE, AlnumChars) >= 1
    THEN { scanGroups(text, k + runLen(text, k, TRUE, AlnumChars) - 1) }
    ELSE {}

\* :\/\/ at position j, then the host
scanSep(text, j) ==
    IF j + 2 <= Len(text) /\ SubSeq(text, j, j + 2) = <<":", "/", "/">>
    THEN scanHost(text, j + 3)
    ELSE {}

\* the match of the regex of update_file that starts at position i: the set
\* of its end position, {} when there is none.  After "http" an "s" is taken
\* when there is one (without it "://" cannot follow).
scanAt(text, i) ==
    IF i + 3 <= Len(text) /\ toLowerCase(SubSeq(text, i, i + 3)) = HTTP
    THEN IF i + 4 <= Len(text) /\ lowerChar(text[i + 4]) = "s"
         THEN scanSep(text, i + 5)
         ELSE scanSep(text, i + 4)
    ELSE {}

\* the leftmost match among the start positions starts
execFrom(text, starts) ==
    IF starts = {} THEN {}
    ELSE { [ index |-> minOf(starts) - 1,
             match |-> SubSeq(text, minOf(starts),
                              The(scanAt(text, minOf(starts)))),
             lastIndex |-> The(scanAt(text, minOf(starts))) ] }

\* regex.exec(text) with regex.lastIndex = lastIndex (flag g): the match
\* with its index and the new lastIndex, {} for null
exec(text, lastIndex) ==
    execFrom(text, { i \in (lastIndex + 1)..Len(text) : scanAt(text, i) # {} })

\* the positions at which pattern occurs in text
occurrences(text, pattern) ==
    { i \in 1..(Len(text) - Len(pattern) + 1) :
        SubSeq(text, i, i + Len(pattern) - 1) = pattern }

\* text.replace(pattern, value) for a string pattern: the first occurrence
replace(text, pattern, value) ==
    IF occurrences(text, pattern) = {} THEN text
    ELSE SubSeq(text, 1, minOf(occurrences(text, pattern)) - 1)
           \o value
           \o SubSeq(text, minOf(occurrences(text, pattern)) + Len(pattern),
                     Len(text))

\* req.body.text: two URLs, the first of which is longer than its short
\* URL; the same two in the other order; a URL with an invalid authority
\* before and after a valid one
TextLongFirst ==
    <<"h","t","t","p",":","/","/","a","/","x","x","x","x","x","x"," ","h","t","t","p","s",":","/","/","b">>
TextShortFirst ==
    <<"h","t","t","p","s",":","/","/","b"," ","h","t","t","p",":","/","/","a","/","x","x","x","x","x","x">>
TextBadFirst ==
    <<"h","t","t","p",":","/","/","a","?","b"," ","h","t","t","p","s",":","/","/","b">>
TextBadLast ==
    <<"h","t","t","p","s",":","/","/","b"," ","h","t","t","p",":","/","/","a","?","b">>
Texts == { TextLongFirst, TextShortFirst, TextBadFirst, TextBadLast }

\* update_file: res.status(CREATED); res.json(new_text)
Respond(text, new_text) ==
    /\ scan' = [ pc |-> "done", text |-> text, new_text |-> new_text,
                 lastIndex |-> 0, matches |-> <<>> ]
    /\ UNCHANGED <<store, req>>

\* update_file: await app.locals.model.add(matches[0]), up to the first
\* store operation of add
ScanAdd(text, new_text, m) ==
    /\ scan' = [ pc |-> "adding", text |-> text, new_text |-> new_text,
                 lastIndex |-> m.lastIndex, matches |-> m.match ]
    /\ CallWith(1, "add", m.match, splitUrl(m.match, TRUE),
                addCheck(splitUrl(m.match, TRUE)))

\* update_file: while ((matches = regex.exec(new_text)) !== null)
ScanLoop(text, new_text, m) ==
    IF m = {} THEN Respond(text, new_text) ELSE ScanAdd(text, new_text, The(m))

\* POST /x-text with the text: the handler up to the first await
ScanCall(text) ==
    /\ scan.pc \in {"idle", "done"}
    /\ ScanLoop(text, text, exec(text, 0))
    /\ UNCHANGED <<clearPc, seqHist, concHist, boot>>

\* one store operation of the add the handler awaits
ScanStep ==
    /\ scan.pc = "adding"
    /\ AddStep(1)
    /\ UNCHANGED <<clearPc, seqHist, concHist, callers>>

\* the add returned: new_text = new_text.replace(matches[0], result.value)
\* and the next turn of the loop
ScanReplaced(new_text) ==
    ScanLoop(scan.text, new_text, exec(new_text, scan.lastIndex))

\* the awaited add has ended: the loop goes on, or add threw and catch (err)
\* {} ends the loop
ScanResume ==
    /\ scan.pc = "adding"
    /\ Idle(1)
    /\ IF req[1].result.code = "OK"
       THEN ScanReplaced(replace(scan.new_text, scan.matches, req[1].result.value))
       ELSE Respond(scan.text, scan.new_text)
    /\ UNCHANGED <<clearPc, seqHist, concHist, boot>>

ScanNext ==
    \/ \E text \in Texts : ScanCall(text)
    \/ ScanStep
    \/ ScanResume

ScanSpec == Init /\ [][ScanNext]_vars

\* what the URL-looking substring url is to be replaced by: itself when add
\* refuses it, else the short URL of its mapping (nothing when it has none)
shortened(url, components) ==
    IF addCheck(components) # "" THEN url
    ELSE IF findOne(urls, keyOf(components)) = {} THEN <<>>
    ELSE formatUrl(components.scheme,
                   The(findOne(urls, keyOf(components))).shortUrl)

\* the submitted text from position from on (0-based), with every
\* URL-looking substring replaced by what it is to be replaced by
RECURSIVE expected(_, _)
expectedAfter(text, from, m) ==
    SubSeq(text, from + 1, m.index)
        \o shortened(m.match, splitUrl(m.match, TRUE))
        \o expected(text, m.lastIndex)
expected(text, from) ==
    IF exec(text, from) = {} THEN SubSeq(text, from + 1, Len(text))
    ELSE expectedAfter(text, from, The(exec(text, from)))

\* C16: text-scan endpoint.  The text in the response is the submitted text
\* with every URL-looking substring that add accepts replaced by its short
\* URL and every one that add refuses left as it is, wherever in the text
\* the refused ones are.
C16_TextScan ==
    scan.pc = "done" => scan.new_text = expected(scan.text, 0)

====
